---- MODULE Spec2Model ----
(***************************************************************************)
(* CSOP (Client-Side Orchestration Protocol): the protocol router of       *)
(* src/src/csop.js.  One router instance, its Capability Registry, its     *)
(* init() calls and one caller that issues dispatch() calls one after the  *)
(* other.  A text is a sequence of symbols; the symbol "." is the dot and  *)
(* every other symbol stands for a fixed non-empty text without a dot.     *)
(* A second specification, StorageSpec, is one StorageCapability of        *)
(* src/src/capabilities/storage.js with its local object store and the     *)
(* remote database, used by one caller, one operation after the other.     *)
(* A third, LifecycleSpec, is the router's init() and register() calls      *)
(* alone, with init() calls that overlap.  A fourth, FunctionSpec, is one   *)
(* caller of the functions that keep no state: the validators of           *)
(* CSPValidator, the constructor of CSOPError and the parsing of an action. *)
(***************************************************************************)
EXTENDS Integers, Sequences, FiniteSets, TLC

\* ------------------------------------------------------------------ bounds
MaxActionLen == 3
MaxRetries == 2
MaxInitCalls == 1
LifecycleInitCalls == 2
MaxNameLen == 3
MaxParseLen == 5

\* ------------------------------------------------------- program constants
DefaultTimeout == 5000
DefaultRetry == 0
BaseDelay == 100
MaxKeyLength == 255

\* --------------------------------------------------------- value encodings
\* A JavaScript number or undefined, tagged so that both compare.
Num(n) == [t |-> "number", n |-> n]
Undef == [t |-> "undefined", n |-> 0]

Undefined == "undefined"

Symbols == {"storage", "save", "db", "."}

RECURSIVE TextsOfLen(_)
TextsOfLen(n) ==
    IF n = 0 THEN {<<>>}
    ELSE {<<c>> \o t : c \in Symbols, t \in TextsOfLen(n - 1)}

Texts == UNION {TextsOfLen(n) : n \in 0..MaxActionLen}

\* The options objects a caller passes: each key present or not.
RetryValues == {Undef} \cup {Num(n) : n \in -1..MaxRetries}
TimeoutValues == {Num(50)}
EmptyObject == [k \in {} |-> Undef]
OptionsValues ==
    {EmptyObject}
    \cup {[retry |-> r] : r \in RetryValues}
    \cup {[timeout |-> t] : t \in TimeoutValues}
    \cup {[retry |-> r, timeout |-> t] : r \in RetryValues, t \in TimeoutValues}

\* crypto.randomUUID(): any of these.
Ids == {"csop_1", "csop_2"}

\* What an operation can reject with (or throw): an Error carrying a code, an
\* Error carrying none, an object without message, and the value undefined.
ErrObj(code, message) == [kind |-> "object", code |-> code, message |-> message]
ErrUndefined == [kind |-> "undefined", code |-> Undefined, message |-> Undefined]
KeyNotFoundErrorNoCode == ErrObj(Undefined, "Key not found")

\* const error = new Error(`Key "${key}" not found`); error.code = 'KEY_NOT_FOUND'
KeyNotFoundError == ErrObj("KEY_NOT_FOUND", "Key not found")

\* new Error('Key is required')
KeyRequiredError == ErrObj(Undefined, "Key is required")

OperationErrors ==
    { KeyNotFoundError,
      KeyRequiredError,
      ErrObj("OPERATION_NOT_FOUND", Undefined),
      ErrUndefined }
OperationResults == {"r1"}

\* How long an operation takes to settle, and how late the timer of
\* _withTimeout may fire (ms).
SettleDelays == {0, 20}
TimerLateness == {0, 4}

\* ------------------------------------------------------------ capabilities
StorageCapability(i) == [kind |-> "storage", inst |-> i]
ComputeCapability(i) == [kind |-> "compute", inst |-> i]
SyncCapability(i) == [kind |-> "sync", inst |-> i]
MyCapability == [kind |-> "custom", inst |-> 0]

\* typeof capability[operation]: save is a method of StorageCapability, db one
\* of its data fields; MyCapability has neither.  No text names the domains
\* compute and sync, so the members of those capabilities are never read.
TypeofMember(capability, operation) ==
    IF capability.kind = "storage"
    THEN CASE operation = <<"save">> -> "function"
           [] operation = <<"db">> -> "object"
           [] OTHER -> "undefined"
    ELSE "undefined"

\* ----------------------------------------------------- storage: the values
\* Keys and prefixes are texts of characters; the empty text is falsy.
Keys == {<<>>, <<"a">>, <<"a", "b">>}
PrefixTexts == {<<>>, <<"a">>, <<"a", "b">>, <<"b">>}

\* The payload of list: { prefix } given or not.
ListPayloads ==
    {[given |-> FALSE, prefix |-> <<>>]}
    \cup {[given |-> TRUE, prefix |-> p] : p \in PrefixTexts}

\* JSON values: null and strings of characters.
JsonNull == [t |-> "null", s |-> <<>>]
JsonString(chars) == [t |-> "string", s |-> chars]
JsonValues == {JsonString(<<>>), JsonString(<<"é">>), JsonString(<<"é", "é">>)}

\* JSON.stringify(data), as a text of characters
JsonStringify(data) ==
    IF data.t = "null" THEN <<"n", "u", "l", "l">>
    ELSE <<"\"">> \o data.s \o <<"\"">>

BlobSizeInCharacters(text) == Len(text)

\* new Blob([dataStr]).size: the bytes of the UTF-8 encoding of the text, two
\* for the character é and one for each of the others
BlobSize(text) ==
    Len(text) + Cardinality({i \in 1..Len(text) : text[i] = "é"})

\* this.maxLocalSize = 5 * 1024 * 1024
DefaultMaxLocalSize == 5 * 1024 * 1024

\* The config objects handed to StorageCapability.init: maxLocalSize absent,
\* zero or a number of bytes.
StorageConfigs == {Undef, Num(0), Num(4)}

\* What configureTurso is given: null, an object without authToken, an
\* object with url and authToken.  An absent field reads as the empty text.
NoTurso == [set |-> FALSE, url |-> "", authToken |-> ""]
TursoConfigs ==
    { NoTurso,
      [set |-> TRUE, url |-> "libsql://db", authToken |-> ""],
      [set |-> TRUE, url |-> "libsql://db", authToken |-> "token"] }

\* A store: a function from keys to values.
NoRecords == [k \in {} |-> JsonNull]

\* What the remote database holds when the capability is constructed: nothing,
\* or a record another client has written.
RemoteContents == {NoRecords, [k \in {<<"a", "b">>} |-> JsonNull]}

PutIfAbsent(records, key, data) ==
    [k \in (DOMAIN records) \cup {key} |->
        IF k \in DOMAIN records THEN records[k] ELSE data]

\* store.put(data, key)
Put(records, key, data) ==
    [k \in (DOMAIN records) \cup {key} |-> IF k = key THEN data ELSE records[k]]

RemoveNothing(records, key) == records

\* store.delete(key)
Remove(records, key) == [k \in (DOMAIN records) \ {key} |-> records[k]]

Includes(k, prefix) ==
    \E i \in 0..(Len(k) - Len(prefix)) : SubSeq(k, i + 1, i + Len(prefix)) = prefix

\* k.startsWith(prefix)
StartsWith(k, prefix) ==
    /\ Len(prefix) <= Len(k)
    /\ SubSeq(k, 1, Len(prefix)) = prefix

\* What a storage operation resolves with.
NoReturn ==
    [type |-> "none", key |-> <<>>, value |-> JsonNull, location |-> "",
     size |-> 0, warning |-> Undefined, deleted |-> FALSE, keys |-> {}]

\* { key, location, size } and { key, location, size, warning } of save
SaveReceipt(key, location, size, warning) ==
    [NoReturn EXCEPT !.type = "receipt", !.key = key, !.location = location,
                     !.size = size, !.warning = warning]

\* the data get returns
GetReturn(data) == [NoReturn EXCEPT !.type = "value", !.value = data]

\* { deleted: true, key }
DeleteReceipt(key) == [NoReturn EXCEPT !.type = "deleted", !.deleted = TRUE, !.key = key]

\* the keys list returns
ListReturn(keys) == [NoReturn EXCEPT !.type = "keys", !.keys = keys]

\* new Error('Failed to ... IndexedDB'), or the TypeError of this.db being null
LocalStoreError == ErrObj(Undefined, "IndexedDB request failed")

\* new Error('Turso configuration incomplete')
TursoIncompleteError == ErrObj(Undefined, "Turso configuration incomplete")

\* ------------------------------------------- validators and CSOPError: values
\* A JavaScript string, tagged like Num and Undef.
Str(chars) == [t |-> "string", s |-> chars]

NameCharacters == {"a", "Z", "1", "_", "-"}

RECURSIVE NamesOfLen(_)
NamesOfLen(n) ==
    IF n = 0 THEN {<<>>}
    ELSE {<<c>> \o t : c \in NameCharacters, t \in NamesOfLen(n - 1)}

\* a text of n characters
LongText(n) == [i \in 1..n |-> "a"]

\* What the validators are given: strings short and long, and values that
\* are no strings.
ValidatorInputs ==
    {Str(t) : t \in UNION {NamesOfLen(n) : n \in 0..MaxNameLen}}
    \cup {Str(LongText(MaxKeyLength)), Str(LongText(MaxKeyLength + 1))}
    \cup {Num(1), Undef}

UpperCase ==
    <<"A", "B", "C", "D", "E", "F", "G", "H", "I", "J", "K", "L", "M",
      "N", "O", "P", "Q", "R", "S", "T", "U", "V", "W", "X", "Y", "Z">>
LowerCase ==
    <<"a", "b", "c", "d", "e", "f", "g", "h", "i", "j", "k", "l", "m",
      "n", "o", "p", "q", "r", "s", "t", "u", "v", "w", "x", "y", "z">>

\* the case folding of the flag i of a regular expression
FoldCase(c) ==
    IF \E i \in 1..26 : UpperCase[i] = c
    THEN LowerCase[CHOOSE i \in 1..26 : UpperCase[i] = c]
    ELSE c

InRange(c, alphabet) == \E i \in 1..Len(alphabet) : alphabet[i] = c

DecimalDigits == <<"0", "1", "2", "3", "4", "5", "6", "7", "8", "9">>

NamePatternTestCaseSensitive(chars) ==
    /\ chars # <<>>
    /\ InRange(chars[1], LowerCase) \/ chars[1] = "_"
    /\ \A i \in 2..Len(chars) :
          \/ InRange(chars[i], LowerCase)
          \/ InRange(chars[i], DecimalDigits)
          \/ chars[i] = "_"

\* /^[a-z_][a-z0-9_]*$/i.test(name)
NamePatternTest(chars) ==
    /\ chars # <<>>
    /\ InRange(FoldCase(chars[1]), LowerCase) \/ chars[1] = "_"
    /\ \A i \in 2..Len(chars) :
          \/ InRange(FoldCase(chars[i]), LowerCase)
          \/ InRange(chars[i], DecimalDigits)
          \/ chars[i] = "_"

\* What a function call ends with: a returned value or a thrown Error, whose
\* message is the text before the colon and the text from the colon on.
Returned(value) == [kind |-> "returned", value |-> value, message |-> <<>>]
Threw(message) == [kind |-> "threw", value |-> Undef, message |-> message]

\* CSPValidator.validateCapability(name)
ValidateCapabilityResult(name) ==
    IF name.t # "string"
    THEN Threw(<<"CAPABILITY_NAME_INVALID", ": Must be string">>)
    ELSE IF ~NamePatternTest(name.s)
    THEN Threw(<<"CAPABILITY_NAME_INVALID", ": Invalid format">>)
    ELSE Returned(name)

KeyLengthRejectedAbove(length) == length > MaxKeyLength

\* key.length === 0 || key.length > 255
KeyLengthRejected(length) == length = 0 \/ length > MaxKeyLength

\* CSPValidator.validateStorageKey(key)
ValidateStorageKeyResult(key) ==
    IF key.t # "string"
    THEN Threw(<<"STORAGE_KEY_INVALID", ": Must be string">>)
    ELSE IF KeyLengthRejected(Len(key.s))
    THEN Threw(<<"STORAGE_KEY_INVALID", ": Length must be 1-255">>)
    ELSE Returned(key)

\* export const ErrorCodes = { ... }
ErrorCodes ==
    [k \in {"CAPABILITY_NOT_FOUND", "CAPABILITY_INIT_FAILED",
            "CAPABILITY_NAME_INVALID", "STORAGE_KEY_INVALID",
            "STORAGE_VALUE_INVALID", "STORAGE_QUOTA_EXCEEDED",
            "STORAGE_OPERATION_FAILED", "CONFIG_INVALID", "UNKNOWN_ERROR"} |->
        CASE k = "CAPABILITY_NOT_FOUND" ->
               [code |-> Num(1001), message |-> "Capability not registered"]
          [] k = "CAPABILITY_INIT_FAILED" ->
               [code |-> Num(1002), message |-> "Capability initialization failed"]
          [] k = "CAPABILITY_NAME_INVALID" ->
               [code |-> Num(1003), message |-> "Invalid capability name"]
          [] k = "STORAGE_KEY_INVALID" ->
               [code |-> Num(2001), message |-> "Invalid storage key"]
          [] k = "STORAGE_VALUE_INVALID" ->
               [code |-> Num(2002), message |-> "Invalid storage value"]
          [] k = "STORAGE_QUOTA_EXCEEDED" ->
               [code |-> Num(2003), message |-> "Storage quota exceeded"]
          [] k = "STORAGE_OPERATION_FAILED" ->
               [code |-> Num(2004), message |-> "Storage operation failed"]
          [] k = "CONFIG_INVALID" ->
               [code |-> Num(3001), message |-> "Invalid configuration"]
          [] OTHER ->
               [code |-> Num(9999), message |-> "Unknown error occurred"]]

\* Names every object inherits from Object.prototype: ErrorCodes[name] is a
\* function (truthy) with neither code nor message.
ObjectPrototypeNames == {"constructor", "toString"}
InheritedMember == [code |-> Undef, message |-> Undefined]

\* The error codes CSOPError is given, and the details (undefined or an object).
ErrorCodeInputs == (DOMAIN ErrorCodes) \cup ObjectPrototypeNames \cup {"NO_SUCH_CODE", ""}
DetailsInputs == {Undefined, "{name: 'test'}"}

ErrorCodesEntryOwn(errorCode) ==
    IF errorCode \in DOMAIN ErrorCodes THEN ErrorCodes[errorCode]
    ELSE ErrorCodes["UNKNOWN_ERROR"]

\* ErrorCodes[errorCode] || ErrorCodes.UNKNOWN_ERROR
ErrorCodesEntry(errorCode) ==
    IF errorCode \in DOMAIN ErrorCodes THEN ErrorCodes[errorCode]
    ELSE IF errorCode \in ObjectPrototypeNames THEN InheritedMember
    ELSE ErrorCodes["UNKNOWN_ERROR"]

\* new CSOPError(errorCode, details = {}); super(undefined) leaves the
\* message empty
CSOPError(errorCode, details) ==
    LET error == ErrorCodesEntry(errorCode)
    IN  [name |-> "CSOPError",
         message |-> IF error.message = Undefined THEN "" ELSE error.message,
         code |-> error.code,
         errorCode |-> errorCode,
         details |-> IF details = Undefined THEN "{}" ELSE details]

\* ------------------------------------------------------------------- state
VARIABLES
    initialized,    \* this.initialized
    capabilities,   \* this.capabilities: a function, domain name -> capability
    initPc,         \* where each init() call stands
    registered,     \* per name, the capability of the latest register call
    pc,             \* where the dispatch() call stands
    call,           \* the dispatch call: its action, the id generated for it,
                    \* this.initialized, the registry and the latest
                    \* registrations when it was made
    message,        \* the message handed to _executeWithRetry
    attempt,        \* loop variable of _executeWithRetry
    lastError,      \* lastError of _executeWithRetry
    result,         \* what the dispatch call returned or threw
    clock,          \* milliseconds since the dispatch call
    startTime,      \* startTime of the running attempt
    invocations,    \* capability[operation](payload) calls of this dispatch
    invoked,        \* the capability and member name of the last such call
    lookups,        \* this.capabilities.get calls of this dispatch
    waits,          \* the delay(waitTime) calls of this dispatch, in order
    outcome,        \* how the latest attempt's race ended
    failedAt,       \* clock when the latest attempt failed
    starts,         \* clock at each capability[operation](payload) call
    abandoned       \* per attempt whose timer fired first: its operation's
                    \* promise, "pending", "resolved" or "rejected"

VARIABLES
    db,             \* this.db of the StorageCapability: "null" or "open"
    maxLocalSize,   \* this.maxLocalSize
    tursoConfig,    \* this.tursoConfig
    objectStore,    \* the object store 'data' of the database 'csop-storage'
    cloud,          \* the records of the remote (Turso) database
    saved,          \* the latest save, if its key was not saved or deleted since
    last,           \* the latest storage operation and how it ended
    tierCalls,      \* the tiers the latest storage operation called, in order
    removed         \* the keys deleted and not saved since, each with whether
                    \* the local store held it when it was deleted

VARIABLES
    applied         \* the function call under way: function, input and result

vars == <<initialized, capabilities, initPc, registered, pc, call, message, attempt, lastError,
          result, clock, startTime, invocations, invoked, lookups, waits,
          outcome, failedAt, starts, abandoned,
          db, maxLocalSize, tursoConfig, objectStore, cloud, saved, last,
          tierCalls, removed, applied>>

functionVars == <<applied>>

storageVars == <<db, maxLocalSize, tursoConfig, objectStore, cloud, saved, last,
                 tierCalls, removed>>

routerVars == <<initialized, capabilities, initPc, registered>>
dispatchVars == <<pc, call, message, attempt, lastError, result, clock, startTime,
                  invocations, invoked, lookups, waits, outcome, failedAt,
                  starts, abandoned>>

EmptyRegistry == [d \in {} |-> MyCapability]
NoCall == [action |-> <<>>, id |-> "", initialized |-> FALSE,
           registry |-> EmptyRegistry, latest |-> EmptyRegistry]
NoMessage == [id |-> "", action |-> <<>>, options |-> EmptyObject]
NoResult == [status |-> "none"]
NoOutcome == [kind |-> "none", value |-> "", error |-> ErrUndefined]
NoInvoked == [capability |-> [kind |-> "none", inst |-> 0], operation |-> <<>>]
NoneAbandoned == [k \in {} |-> "pending"]

NoneRemoved == [k \in {} |-> FALSE]
NoSave == [made |-> FALSE, key |-> <<>>, value |-> JsonNull, location |-> "",
           small |-> FALSE]
NoOperation ==
    [op |-> "none", key |-> <<>>, data |-> JsonNull,
     payload |-> [given |-> FALSE, prefix |-> <<>>], works |-> FALSE,
     before |-> NoRecords, kind |-> "none", returned |-> NoReturn,
     error |-> ErrUndefined]

\* constructor() of StorageCapability; nothing is stored yet.
StorageConstructed ==
    /\ db = "null"
    /\ maxLocalSize = DefaultMaxLocalSize
    /\ tursoConfig = NoTurso
    /\ objectStore = NoRecords
    /\ saved = NoSave
    /\ last = NoOperation
    /\ tierCalls = <<>>
    /\ removed = NoneRemoved

NoApplication == [fn |-> "none", input |-> Undef, output |-> Returned(Undef)]

\* no function call is under way
NoFunctionCall == applied = NoApplication

\* constructor() of CSOP, with n init() calls to come
RegistryConstructed(n) ==
    /\ initialized = FALSE
    /\ capabilities = EmptyRegistry
    /\ initPc = [i \in 1..n |-> "new"]
    /\ registered = EmptyRegistry

\* no dispatch call is under way
NoDispatch ==
    /\ pc = "idle"
    /\ call = NoCall
    /\ message = NoMessage
    /\ attempt = 0
    /\ lastError = ErrUndefined
    /\ result = NoResult
    /\ clock = 0
    /\ startTime = 0
    /\ invocations = 0
    /\ invoked = NoInvoked
    /\ lookups = 0
    /\ waits = <<>>
    /\ outcome = NoOutcome
    /\ failedAt = 0
    /\ starts = <<>>
    /\ abandoned = NoneAbandoned

RouterConstructed ==
    /\ RegistryConstructed(MaxInitCalls)
    /\ NoDispatch

Init ==
    /\ RouterConstructed
    /\ StorageConstructed
    /\ cloud = NoRecords
    /\ NoFunctionCall

\* ------------------------------------------------------- CSOP.register/init
MapSetKeepFirst(map, name, capability) ==
    [d \in (DOMAIN map) \cup {name} |->
        IF d \in DOMAIN map THEN map[d] ELSE capability]

\* this.capabilities.set(name, capability)
MapSet(map, name, capability) ==
    [d \in (DOMAIN map) \cup {name} |->
        IF d = name THEN capability ELSE map[d]]

\* this.capabilities.get(name): the entry, or undefined
MapHas(map, name) == name \in DOMAIN map

RegisterNames == {<<"storage">>}
RegisterCapabilities == {MyCapability}

Register(name, capability) ==
    /\ capabilities' = MapSet(capabilities, name, capability)
    /\ registered' = (name :> capability) @@ registered
    /\ UNCHANGED <<initialized, initPc>>
    /\ UNCHANGED dispatchVars
    /\ UNCHANGED functionVars
    /\ UNCHANGED storageVars

\* init(): returns at once when already initialized, else builds the three
\* capabilities and awaits storage.init.
InitCall(i) ==
    /\ initPc[i] = "new"
    /\ \A j \in 1..(i - 1) : initPc[j] # "new"
    /\ initPc' = [initPc EXCEPT ![i] = IF initialized THEN "noop" ELSE "storage"]
    /\ UNCHANGED <<initialized, capabilities, registered>>
    /\ UNCHANGED dispatchVars
    /\ UNCHANGED functionVars
    /\ UNCHANGED storageVars

InitAwaitResolvesEarly(i) ==
    /\ initPc[i] \in {"storage", "compute", "sync"}
    /\ IF initPc[i] = "storage"
         THEN /\ initPc' = [initPc EXCEPT ![i] = "compute"]
              /\ initialized' = TRUE
              /\ UNCHANGED <<capabilities, registered>>
       ELSE IF initPc[i] = "compute"
         THEN /\ initPc' = [initPc EXCEPT ![i] = "sync"]
              /\ UNCHANGED <<initialized, capabilities, registered>>
       ELSE /\ initPc' = [initPc EXCEPT ![i] = "done"]
            /\ capabilities' =
                 MapSet(MapSet(MapSet(capabilities,
                     <<"storage">>, StorageCapability(i)),
                     <<"compute">>, ComputeCapability(i)),
                     <<"sync">>, SyncCapability(i))
            /\ registered' =
                 (<<"sync">> :> SyncCapability(i))
                 @@ (<<"compute">> :> ComputeCapability(i))
                 @@ (<<"storage">> :> StorageCapability(i))
                 @@ registered
            /\ initialized' = TRUE
    /\ UNCHANGED dispatchVars
    /\ UNCHANGED functionVars
    /\ UNCHANGED storageVars

\* The awaited capability init resolves: init moves on to the next await, and
\* after sync.init registers the three capabilities and sets initialized.
InitAwaitResolves(i) ==
    /\ initPc[i] \in {"storage", "compute", "sync"}
    /\ IF initPc[i] = "storage"
         THEN /\ initPc' = [initPc EXCEPT ![i] = "compute"]
              /\ UNCHANGED <<initialized, capabilities, registered>>
       ELSE IF initPc[i] = "compute"
         THEN /\ initPc' = [initPc EXCEPT ![i] = "sync"]
              /\ UNCHANGED <<initialized, capabilities, registered>>
       ELSE /\ initPc' = [initPc EXCEPT ![i] = "done"]
            /\ capabilities' =
                 MapSet(MapSet(MapSet(capabilities,
                     <<"storage">>, StorageCapability(i)),
                     <<"compute">>, ComputeCapability(i)),
                     <<"sync">>, SyncCapability(i))
            /\ registered' =
                 (<<"sync">> :> SyncCapability(i))
                 @@ (<<"compute">> :> ComputeCapability(i))
                 @@ (<<"storage">> :> StorageCapability(i))
                 @@ registered
            /\ initialized' = TRUE
    /\ UNCHANGED dispatchVars
    /\ UNCHANGED functionVars
    /\ UNCHANGED storageVars

InitAwaitRejectsHalfway(i) ==
    /\ initPc[i] \in {"storage", "compute", "sync"}
    /\ initPc' = [initPc EXCEPT ![i] = "failed"]
    /\ IF initPc[i] = "storage"
       THEN UNCHANGED <<capabilities, registered>>
       ELSE /\ capabilities' = MapSet(capabilities, <<"storage">>, StorageCapability(i))
            /\ registered' = (<<"storage">> :> StorageCapability(i)) @@ registered
    /\ UNCHANGED initialized
    /\ UNCHANGED dispatchVars
    /\ UNCHANGED functionVars
    /\ UNCHANGED storageVars

\* The awaited capability init rejects: init() rejects with it.
InitAwaitRejects(i) ==
    /\ initPc[i] \in {"storage", "compute", "sync"}
    /\ initPc' = [initPc EXCEPT ![i] = "failed"]
    /\ UNCHANGED <<initialized, capabilities, registered>>
    /\ UNCHANGED dispatchVars
    /\ UNCHANGED functionVars
    /\ UNCHANGED storageVars

\* info()
Info ==
    [version |-> "0.2.0", initialized |-> initialized,
     capabilities |-> DOMAIN capabilities]

\* The names handed to register by hand: texts of characters, besides storage.
LifecycleNames == {<<"storage">>, <<"a", "-", "b">>, <<"1", "a">>}

\* ------------------------------------------------------------ CSOP.dispatch
NotInitializedNever(flag) == FALSE

\* if (!this.initialized) throw ...
NotInitialized(flag) == ~flag

\* action.split('.'): the pieces between the dots, in order
RECURSIVE Split(_)
Split(text) ==
    IF text = <<>> THEN << <<>> >>
    ELSE LET rest == Split(Tail(text))
         IN  IF Head(text) = "."
             THEN << <<>> >> \o rest
             ELSE << <<Head(text)>> \o rest[1] >> \o Tail(rest)

\* const [domain, operation] = action.split('.'): the first two pieces;
\* operation is undefined when there is no second piece.
ParseAction(action) ==
    LET parts == Split(action)
    IN  [domain |-> parts[1],
         operationDefined |-> Len(parts) >= 2,
         operation |-> IF Len(parts) >= 2 THEN parts[2] ELSE <<>>]

ActionRejectedDomainOnly(parsed) == parsed.domain = <<>>

\* !domain || !operation
ActionRejected(parsed) ==
    \/ parsed.domain = <<>>
    \/ ~parsed.operationDefined
    \/ parsed.operation = <<>>

\* options: { timeout: 5000, retry: 0, ...options }
MergeOptions(options) ==
    [k \in {"timeout", "retry"} \cup DOMAIN options |->
        IF k \in DOMAIN options THEN options[k]
        ELSE IF k = "timeout" THEN Num(DefaultTimeout) ELSE Num(DefaultRetry)]

\* !capability, for the value of this.capabilities.get(domain)
CapabilityMissing(registry, domain) == ~MapHas(registry, domain)

OperationMissingIfUndefined(capability, operation) ==
    TypeofMember(capability, operation) = "undefined"

\* typeof capability[operation] !== 'function'
OperationMissing(capability, operation) ==
    TypeofMember(capability, operation) # "function"

NonRetryableCodesShort == {"INVALID_ACTION", "OPERATION_NOT_FOUND"}

NonRetryableCodes == {"INVALID_ACTION", "CAPABILITY_NOT_FOUND", "OPERATION_NOT_FOUND"}

ErrorResponseAlwaysRetry(id, code, text) ==
    [id |-> id,
     status |-> "error",
     error |-> [code |-> code, message |-> text, retry |-> TRUE]]

\* _errorResponse(id, code, message)
ErrorResponse(id, code, text) ==
    [id |-> id,
     status |-> "error",
     error |-> [code |-> code, message |-> text,
                retry |-> code \notin NonRetryableCodes]]

SuccessResponseFreshId(id, data, duration) ==
    [id |-> "csop_0", status |-> "ok", data |-> data, duration |-> duration]

\* the success envelope of _executeWithRetry
SuccessResponse(id, data, duration) ==
    [id |-> id, status |-> "ok", data |-> data, duration |-> duration]

\* the promise of dispatch rejects with an Error
Thrown(text) == [status |-> "thrown", message |-> text]

\* a || b on a string-or-undefined a
OrElse(a, b) == IF a = Undefined \/ a = "" THEN b ELSE a

LoopConditionStrict(k, maxRetries) ==
    maxRetries.t = "number" /\ k < maxRetries.n

\* for (...; attempt <= maxRetries; ...): false when maxRetries is undefined
LoopCondition(k, maxRetries) ==
    maxRetries.t = "number" /\ k <= maxRetries.n

\* if (attempt < maxRetries)
RetryRemains(k, maxRetries) ==
    maxRetries.t = "number" /\ k < maxRetries.n

WaitTimeFlat(k) == BaseDelay

\* Math.pow(2, attempt) * 100
WaitTime(k) == (2 ^ k) * BaseDelay

\* new Error('TIMEOUT'): a message and no code
TimeoutError == ErrObj(Undefined, "TIMEOUT")

CaughtErrorFirst(previous, error) ==
    IF previous.kind = "undefined" THEN error ELSE previous

\* lastError = error
CaughtError(previous, error) == error

\* After the loop: _errorResponse(message.id, lastError.code ||
\* 'EXECUTION_FAILED', lastError.message || 'Unknown error'); reading .code
\* of undefined throws a TypeError.
ExhaustedResult(id, error) ==
    IF error.kind = "undefined"
    THEN Thrown("TypeError: Cannot read properties of undefined (reading 'code')")
    ELSE ErrorResponse(id, OrElse(error.code, "EXECUTION_FAILED"),
                       OrElse(error.message, "Unknown error"))

\* dispatch returns (or throws).
Return(answer) ==
    /\ pc' = "done"
    /\ result' = answer

\* The top of the loop of _executeWithRetry(msg, ...) with attempt = k and
\* lastError = error at time now, after count invocations: invoke the
\* operation and await the race, or leave the loop and answer.
EnterLoop(msg, k, error, now, count) ==
    /\ clock' = now
    /\ message' = msg
    /\ attempt' = k
    /\ lastError' = error
    /\ IF LoopCondition(k, msg.options.retry)
       THEN /\ pc' = "awaiting"
            /\ startTime' = now
            /\ invocations' = count + 1
            /\ starts' = IF count = 0 THEN <<now>> ELSE Append(starts, now)
            /\ result' = NoResult
       ELSE /\ Return(ExhaustedResult(msg.id, error))
            /\ startTime' = startTime
            /\ invocations' = count
            /\ starts' = IF count = 0 THEN <<>> ELSE starts

\* An answer of dispatch before _executeWithRetry.
AnswerAtOnce(answer) ==
    /\ Return(answer)
    /\ message' = NoMessage
    /\ attempt' = 0
    /\ lastError' = ErrUndefined
    /\ invocations' = 0
    /\ invoked' = NoInvoked
    /\ startTime' = 0
    /\ clock' = 0
    /\ starts' = <<>>

\* dispatch(action, payload, options), up to its first await.
DispatchCall(action, options, id) ==
    /\ pc = "idle"
    /\ UNCHANGED routerVars
    /\ UNCHANGED storageVars
    /\ UNCHANGED functionVars
    /\ waits' = <<>>
    /\ outcome' = NoOutcome
    /\ failedAt' = 0
    /\ abandoned' = NoneAbandoned
    /\ IF NotInitialized(initialized)
       THEN /\ call' = [action |-> action, id |-> "", initialized |-> initialized,
                        registry |-> capabilities, latest |-> registered]
            /\ lookups' = 0
            /\ AnswerAtOnce(Thrown("CSOP not initialized. Call csop.init() first."))
       ELSE LET parsed == ParseAction(action)
                msg == [id |-> id, action |-> action,
                        options |-> MergeOptions(options)]
            IN  /\ call' = [action |-> action, id |-> id,
                            initialized |-> initialized, registry |-> capabilities,
                            latest |-> registered]
                /\ IF ActionRejected(parsed)
                   THEN /\ lookups' = 0
                        /\ AnswerAtOnce(ErrorResponse(msg.id, "INVALID_ACTION",
                              "Action must be in format \"domain.operation\""))
                   ELSE /\ lookups' = 1
                        /\ IF CapabilityMissing(capabilities, parsed.domain)
                           THEN AnswerAtOnce(ErrorResponse(msg.id, "CAPABILITY_NOT_FOUND",
                                   "No capability registered for domain"))
                           ELSE IF OperationMissing(capabilities[parsed.domain],
                                                    parsed.operation)
                           THEN AnswerAtOnce(ErrorResponse(msg.id, "OPERATION_NOT_FOUND",
                                   "Operation not found in capability"))
                           ELSE /\ invoked' =
                                     IF LoopCondition(0, msg.options.retry)
                                     THEN [capability |-> capabilities[parsed.domain],
                                           operation |-> parsed.operation]
                                     ELSE NoInvoked
                                /\ EnterLoop(msg, 0, ErrUndefined, 0, 0)

\* catch (error) of the running attempt at time now: keep the error, wait
\* the backoff when a retry remains, else go round the loop.
Catch(error, now) ==
    /\ failedAt' = now
    /\ UNCHANGED <<call, invoked, lookups>>
    /\ IF RetryRemains(attempt, message.options.retry)
       THEN /\ pc' = "backoff"
            /\ lastError' = CaughtError(lastError, error)
            /\ waits' = Append(waits, WaitTime(attempt))
            /\ clock' = now
            /\ UNCHANGED <<message, attempt, result, startTime, invocations, starts>>
       ELSE /\ waits' = waits
            /\ EnterLoop(message, attempt + 1, CaughtError(lastError, error),
                         now, invocations)

OperationResolvesNoReturn(d, value) ==
    /\ pc = "awaiting"
    /\ d = 0 \/ d < message.options.timeout.n
    /\ outcome' = [kind |-> "resolved", value |-> value, error |-> ErrUndefined]
    /\ EnterLoop(message, attempt + 1, lastError, startTime + d, invocations)
    /\ UNCHANGED routerVars
    /\ UNCHANGED storageVars
    /\ UNCHANGED functionVars
    /\ UNCHANGED <<call, invoked, lookups, waits, failedAt, abandoned>>

DurationSinceDispatch(now, start) == now

\* const duration = Date.now() - startTime
Duration(now, start) == now - start

\* The operation settles first in the race of _withTimeout, d ms after the
\* attempt started: with a value, and _executeWithRetry returns ...
OperationResolves(d, value) ==
    /\ pc = "awaiting"
    /\ d = 0 \/ d < message.options.timeout.n
    /\ outcome' = [kind |-> "resolved", value |-> value, error |-> ErrUndefined]
    /\ clock' = startTime + d
    /\ Return(SuccessResponse(message.id, value, Duration(startTime + d, startTime)))
    /\ UNCHANGED routerVars
    /\ UNCHANGED storageVars
    /\ UNCHANGED functionVars
    /\ UNCHANGED <<call, message, attempt, lastError, startTime, invocations,
                   invoked, lookups, waits, failedAt, starts, abandoned>>

\* ... or with an error (a rejection, or a throw of the call itself).
OperationRejects(d, error) ==
    /\ pc = "awaiting"
    /\ d = 0 \/ d < message.options.timeout.n
    /\ outcome' = [kind |-> "rejected", value |-> "", error |-> error]
    /\ abandoned' = abandoned
    /\ Catch(error, startTime + d)
    /\ UNCHANGED routerVars
    /\ UNCHANGED storageVars
    /\ UNCHANGED functionVars

TimerDelayNone(ms, late) == 0

\* setTimeout(callback, ms) runs the callback ms milliseconds later, or later
\* still.
TimerDelay(ms, late) == ms + late

\* The timer of _withTimeout fires first: the race is lost by the
\* operation's promise, which stays pending with nobody awaiting it.
TimeoutFires(late) ==
    /\ pc = "awaiting"
    /\ outcome' = [kind |-> "timeout", value |-> "", error |-> TimeoutError]
    /\ abandoned' = (attempt :> "pending") @@ abandoned
    /\ Catch(TimeoutError, startTime + TimerDelay(message.options.timeout.n, late))
    /\ UNCHANGED routerVars
    /\ UNCHANGED storageVars
    /\ UNCHANGED functionVars

\* await delay(waitTime) is over (this timer is taken to be punctual): next
\* round of the loop.
DelayElapses ==
    /\ pc = "backoff"
    /\ UNCHANGED <<call, invoked, lookups, waits, outcome, failedAt, abandoned>>
    /\ EnterLoop(message, attempt + 1, lastError,
                 clock + TimerDelay(waits[Len(waits)], 0), invocations)
    /\ UNCHANGED routerVars
    /\ UNCHANGED storageVars
    /\ UNCHANGED functionVars

\* The caller has the answer and is ready for its next call.
CallerContinues ==
    /\ pc = "done"
    /\ pc' = "idle"
    /\ call' = NoCall
    /\ message' = NoMessage
    /\ attempt' = 0
    /\ lastError' = ErrUndefined
    /\ result' = NoResult
    /\ clock' = 0
    /\ startTime' = 0
    /\ invocations' = 0
    /\ invoked' = NoInvoked
    /\ lookups' = 0
    /\ waits' = <<>>
    /\ outcome' = NoOutcome
    /\ failedAt' = 0
    /\ starts' = <<>>
    /\ abandoned' = NoneAbandoned
    /\ UNCHANGED routerVars
    /\ UNCHANGED storageVars
    /\ UNCHANGED functionVars

\* The operation of an attempt that lost the race of _withTimeout settles:
\* the promise returned by Promise.race is settled already and nothing else
\* awaits the operation's promise.  A settlement that would change what the
\* executor does ...
SettlementKinds == {"resolved", "rejected"}

AbandonedSettlesObserved(k, how) ==
    /\ pc # "idle"
    /\ k \in DOMAIN abandoned
    /\ abandoned[k] = "pending"
    /\ abandoned' = [abandoned EXCEPT ![k] = how]
    /\ IF pc = "done" /\ how = "resolved"
       THEN result' = SuccessResponse(message.id, "r1", 0)
       ELSE result' = result
    /\ UNCHANGED <<pc, call, message, attempt, lastError, clock, startTime,
                   invocations, invoked, lookups, waits, outcome, failedAt, starts>>
    /\ UNCHANGED routerVars
    /\ UNCHANGED storageVars
    /\ UNCHANGED functionVars

\* ... and the settlement as it is: nobody observes it.
AbandonedSettles(k, how) ==
    /\ pc # "idle"
    /\ k \in DOMAIN abandoned
    /\ abandoned[k] = "pending"
    /\ abandoned' = [abandoned EXCEPT ![k] = how]
    /\ UNCHANGED <<pc, call, message, attempt, lastError, result, clock, startTime,
                   invocations, invoked, lookups, waits, outcome, failedAt, starts>>
    /\ UNCHANGED routerVars
    /\ UNCHANGED storageVars
    /\ UNCHANGED functionVars

\* -------------------------------------------------------- StorageCapability
\* Truthiness of this.tursoConfig, and of its url and authToken.
TursoConfigured(config) == config.set
TursoIncomplete(config) == config.url = "" \/ config.authToken = ""

KeyMissingNever(key) == FALSE

\* if (!key): the empty string (and a missing key)
KeyMissing(key) == key = <<>>

\* The storage operation op has ended.
Ended(op, key, data, payload, works, before, kind, returned, error) ==
    last' = [op |-> op, key |-> key, data |-> data, payload |-> payload,
             works |-> works, before |-> before, kind |-> kind,
             returned |-> returned, error |-> error]

Resolved(op, key, data, payload, works, before, returned) ==
    Ended(op, key, data, payload, works, before, "resolved", returned, ErrUndefined)

Rejected(op, key, data, payload, works, before, error) ==
    Ended(op, key, data, payload, works, before, "rejected", NoReturn, error)

\* init(config): config.maxLocalSize || this.maxLocalSize, then the database
\* opens (ok) or fails to.
StorageInit(config, ok) ==
    /\ maxLocalSize' = IF config.t = "number" /\ config.n # 0 THEN config.n
                       ELSE maxLocalSize
    /\ db' = IF ok THEN "open" ELSE db
    /\ IF ok
       THEN Resolved("init", <<>>, JsonNull, NoOperation.payload, ok, NoRecords,
                     NoReturn)
       ELSE Rejected("init", <<>>, JsonNull, NoOperation.payload, ok, NoRecords,
                     ErrObj(Undefined, "Failed to open IndexedDB"))
    /\ tierCalls' = <<>>
    /\ UNCHANGED <<tursoConfig, objectStore, cloud, saved, removed>>
    /\ UNCHANGED routerVars
    /\ UNCHANGED dispatchVars
    /\ UNCHANGED functionVars

\* configureTurso(config)
ConfigureTurso(config) ==
    /\ tursoConfig' = config
    /\ Resolved("configureTurso", <<>>, JsonNull, NoOperation.payload, FALSE,
                NoRecords, NoReturn)
    /\ tierCalls' = <<>>
    /\ UNCHANGED <<db, maxLocalSize, objectStore, cloud, saved, removed>>
    /\ UNCHANGED routerVars
    /\ UNCHANGED dispatchVars
    /\ UNCHANGED functionVars

\* save({ key, data }); the requests on the object store work once the
\* database is open.
Save(key, data) ==
    LET size == BlobSize(JsonStringify(data))
        works == db = "open"
        \* await this._saveLocal(key, data); return { key, location, size, warning? }
        SaveLocal(warning) ==
          /\ tierCalls' = <<"local">>
          /\ IF works
             THEN /\ objectStore' = Put(objectStore, key, data)
                  /\ Resolved("save", key, data, NoOperation.payload, works, NoRecords,
                              SaveReceipt(key, "indexeddb", size, warning))
                  /\ saved' = [made |-> TRUE, key |-> key, value |-> data,
                               location |-> "indexeddb",
                               small |-> size < maxLocalSize]
             ELSE /\ objectStore' = objectStore
                  /\ Rejected("save", key, data, NoOperation.payload, works, NoRecords,
                              LocalStoreError)
                  /\ saved' = IF saved.key = key THEN NoSave ELSE saved
        \* await this._saveCloud(key, data): throws on an incomplete
        \* configuration and else sends nothing
        SaveCloud ==
            /\ tierCalls' = <<"remote">>
            /\ objectStore' = objectStore
            /\ IF TursoIncomplete(tursoConfig)
               THEN /\ Rejected("save", key, data, NoOperation.payload, works,
                                NoRecords, TursoIncompleteError)
                    /\ saved' = IF saved.key = key THEN NoSave ELSE saved
               ELSE /\ Resolved("save", key, data, NoOperation.payload, works,
                                NoRecords, SaveReceipt(key, "turso", size, Undefined))
                    /\ saved' = [made |-> TRUE, key |-> key, value |-> data,
                                 location |-> "turso", small |-> FALSE]
    IN  /\ IF KeyMissing(key)
           THEN /\ Rejected("save", key, data, NoOperation.payload, works, NoRecords,
                            KeyRequiredError)
                /\ tierCalls' = <<>>
                /\ UNCHANGED <<objectStore, saved>>
           ELSE IF size < maxLocalSize THEN SaveLocal(Undefined)
           ELSE IF TursoConfigured(tursoConfig) THEN SaveCloud
           ELSE SaveLocal("Large data stored locally")
        /\ removed' = [k \in (DOMAIN removed) \ {key} |-> removed[k]]
        /\ UNCHANGED <<db, maxLocalSize, tursoConfig, cloud>>
        /\ UNCHANGED routerVars
        /\ UNCHANGED dispatchVars
        /\ UNCHANGED functionVars

ProbesOfGetBothTiers(hit, configured) ==
    IF configured THEN <<"local", "remote">> ELSE <<"local">>

\* The calls of get: _getLocal, and _getCloud when that gave no value (or
\* failed) and this.tursoConfig is set.
ProbesOfGet(hit, configured) ==
    IF hit THEN <<"local">>
    ELSE IF configured THEN <<"local", "remote">>
    ELSE <<"local">>

GetCloudReads(records, key) == key \in DOMAIN records

\* _getCloud(key) !== null: _getCloud returns null whatever the remote
\* database holds
GetCloudFound(records, key) == FALSE

\* get({ key }): the object store first (a failure there is a miss), then
\* _getCloud, which returns null, then KEY_NOT_FOUND.
Get(key) ==
    LET works == db = "open"
        hit == works /\ key \in DOMAIN objectStore
    IN  /\ IF KeyMissing(key)
           THEN /\ Rejected("get", key, JsonNull, NoOperation.payload, works,
                            NoRecords, KeyRequiredError)
                /\ tierCalls' = <<>>
           ELSE /\ tierCalls' = ProbesOfGet(hit, TursoConfigured(tursoConfig))
                /\ IF hit
                   THEN Resolved("get", key, JsonNull, NoOperation.payload, works,
                                 NoRecords, GetReturn(objectStore[key]))
                   ELSE IF TursoConfigured(tursoConfig) /\ GetCloudFound(cloud, key)
                   THEN Resolved("get", key, JsonNull, NoOperation.payload, works,
                                 NoRecords, GetReturn(cloud[key]))
                   ELSE Rejected("get", key, JsonNull, NoOperation.payload, works,
                                 NoRecords, KeyNotFoundError)
        /\ UNCHANGED <<db, maxLocalSize, tursoConfig, objectStore, cloud, saved,
                       removed>>
        /\ UNCHANGED routerVars
        /\ UNCHANGED dispatchVars
        /\ UNCHANGED functionVars

\* delete({ key }): _deleteLocal, then _deleteCloud (which does nothing) when
\* Turso is configured.
Delete(key) ==
    LET works == db = "open"
    IN  /\ IF KeyMissing(key)
           THEN /\ Rejected("delete", key, JsonNull, NoOperation.payload, works,
                            objectStore, KeyRequiredError)
                /\ tierCalls' = <<>>
                /\ UNCHANGED <<objectStore, saved, removed>>
           ELSE IF works
           THEN /\ objectStore' = Remove(objectStore, key)
                /\ removed' = (key :> (key \in DOMAIN objectStore)) @@ removed
                /\ saved' = IF saved.key = key THEN NoSave ELSE saved
                /\ tierCalls' = IF TursoConfigured(tursoConfig)
                                THEN <<"local", "remote">> ELSE <<"local">>
                /\ Resolved("delete", key, JsonNull, NoOperation.payload, works,
                            objectStore, DeleteReceipt(key))
           ELSE /\ Rejected("delete", key, JsonNull, NoOperation.payload, works,
                            objectStore, LocalStoreError)
                /\ tierCalls' = <<"local">>
                /\ UNCHANGED <<objectStore, saved, removed>>
        /\ UNCHANGED <<db, maxLocalSize, tursoConfig, cloud>>
        /\ UNCHANGED routerVars
        /\ UNCHANGED dispatchVars
        /\ UNCHANGED functionVars

\* list({ prefix = '' } = {}): the keys of the object store, filtered when
\* the prefix is not empty.
List(payload) ==
    LET works == db = "open"
        prefix == IF payload.given THEN payload.prefix ELSE <<>>
        keys == DOMAIN objectStore
    IN  /\ IF works
           THEN Resolved("list", <<>>, JsonNull, payload, works, NoRecords,
                         ListReturn(IF prefix # <<>>
                                    THEN {k \in keys : StartsWith(k, prefix)}
                                    ELSE keys))
           ELSE Rejected("list", <<>>, JsonNull, payload, works, NoRecords,
                         LocalStoreError)
        /\ tierCalls' = <<"local">>
        /\ UNCHANGED <<db, maxLocalSize, tursoConfig, objectStore, cloud, saved,
                       removed>>
        /\ UNCHANGED routerVars
        /\ UNCHANGED dispatchVars
        /\ UNCHANGED functionVars

\* ------------------------------------------------- functions without state
\* A call of fn with input ends with output.
Apply(fn, input, output) ==
    /\ applied = NoApplication
    /\ applied' = [fn |-> fn, input |-> input, output |-> output]
    /\ UNCHANGED routerVars
    /\ UNCHANGED dispatchVars
    /\ UNCHANGED storageVars

ValidateCapability(name) ==
    Apply("validateCapability", name, ValidateCapabilityResult(name))

ValidateStorageKey(key) ==
    Apply("validateStorageKey", key, ValidateStorageKeyResult(key))

NewCSOPError(errorCode, details) ==
    Apply("CSOPError", [errorCode |-> errorCode, details |-> details],
          CSOPError(errorCode, details))

\* const [domain, operation] = action.split('.') of dispatch
ParseCall(action) ==
    Apply("parseAction", action, ParseAction(action))

\* The caller has the result and is ready for its next call.
FunctionReturns ==
    /\ applied # NoApplication
    /\ applied' = NoApplication
    /\ UNCHANGED routerVars
    /\ UNCHANGED dispatchVars
    /\ UNCHANGED storageVars

\* ------------------------------------------------------------ specification
Next ==
    \/ \E name \in RegisterNames, capability \in RegisterCapabilities :
          Register(name, capability)
    \/ \E i \in 1..MaxInitCalls : InitCall(i)
    \/ \E i \in 1..MaxInitCalls : InitAwaitResolves(i)
    \/ \E i \in 1..MaxInitCalls : InitAwaitRejects(i)
    \/ /\ pc = "idle"
       /\ \E action \in Texts, options \in OptionsValues, id \in Ids :
             DispatchCall(action, options, id)
    \/ \E d \in SettleDelays, value \in OperationResults : OperationResolves(d, value)
    \/ \E d \in SettleDelays, error \in OperationErrors : OperationRejects(d, error)
    \/ \E late \in TimerLateness : TimeoutFires(late)
    \/ DelayElapses
    \/ CallerContinues

Spec == Init /\ [][Next]_vars

\* The executor with the operations it has abandoned: dispatch calls of one
\* registered operation, and the late settlements of the operations whose
\* timer fired first.  (A late settlement changes nothing but abandoned, so
\* Spec leaves it out.)
ExecutorActions == {<<"storage", ".", "save">>}

ExecutorNext ==
    \/ \E i \in 1..MaxInitCalls : InitCall(i)
    \/ \E i \in 1..MaxInitCalls : InitAwaitResolves(i)
    \/ /\ pc = "idle"
       /\ \E action \in ExecutorActions, options \in OptionsValues, id \in Ids :
             DispatchCall(action, options, id)
    \/ \E d \in SettleDelays, value \in OperationResults : OperationResolves(d, value)
    \/ \E d \in SettleDelays, error \in OperationErrors : OperationRejects(d, error)
    \/ \E late \in TimerLateness : TimeoutFires(late)
    \/ DelayElapses
    \/ \E k \in 0..MaxRetries, how \in SettlementKinds : AbandonedSettles(k, how)
    \/ CallerContinues

ExecutorSpec == Init /\ [][ExecutorNext]_vars

\* The router's init() calls and register() calls, no dispatch.
LifecycleInitial ==
    /\ RegistryConstructed(LifecycleInitCalls)
    /\ NoDispatch
    /\ StorageConstructed
    /\ cloud = NoRecords
    /\ NoFunctionCall

LifecycleNext ==
    \/ \E name \in LifecycleNames, capability \in RegisterCapabilities :
          Register(name, capability)
    \/ \E i \in 1..LifecycleInitCalls : InitCall(i)
    \/ \E i \in 1..LifecycleInitCalls : InitAwaitResolves(i)
    \/ \E i \in 1..LifecycleInitCalls : InitAwaitRejects(i)

LifecycleSpec == LifecycleInitial /\ [][LifecycleNext]_vars

\* init() calls that may fail, and between them dispatch calls of a
\* registered operation with the default options.
DefaultOptions == {EmptyObject}

InitFailureNext ==
    \/ \E i \in 1..LifecycleInitCalls : InitCall(i)
    \/ \E i \in 1..LifecycleInitCalls : InitAwaitResolves(i)
    \/ \E i \in 1..LifecycleInitCalls : InitAwaitRejects(i)
    \/ /\ pc = "idle"
       /\ \E action \in ExecutorActions, options \in DefaultOptions, id \in Ids :
             DispatchCall(action, options, id)
    \/ \E d \in SettleDelays, value \in OperationResults : OperationResolves(d, value)
    \/ \E d \in SettleDelays, error \in OperationErrors : OperationRejects(d, error)
    \/ CallerContinues

InitFailureSpec == LifecycleInitial /\ [][InitFailureNext]_vars

\* One caller of the functions without state.
ParseTexts == UNION {TextsOfLen(n) : n \in 0..MaxParseLen}

FunctionNext ==
    \/ \E name \in ValidatorInputs : ValidateCapability(name)
    \/ \E key \in ValidatorInputs : ValidateStorageKey(key)
    \/ \E errorCode \in ErrorCodeInputs, details \in DetailsInputs :
          NewCSOPError(errorCode, details)
    \/ \E action \in ParseTexts : ParseCall(action)
    \/ FunctionReturns

FunctionSpec == Init /\ [][FunctionNext]_vars

\* One StorageCapability and its caller; the router is left as constructed.
StorageInitial ==
    /\ RouterConstructed
    /\ StorageConstructed
    /\ cloud \in RemoteContents
    /\ NoFunctionCall

StorageNext ==
    \/ \E config \in StorageConfigs, ok \in BOOLEAN : StorageInit(config, ok)
    \/ \E config \in TursoConfigs : ConfigureTurso(config)
    \/ \E key \in Keys, data \in JsonValues : Save(key, data)
    \/ \E key \in Keys : Get(key)
    \/ \E key \in Keys : Delete(key)
    \/ \E payload \in ListPayloads : List(payload)

StorageSpec == StorageInitial /\ [][StorageNext]_vars

\* The StorageCapability with keys at the length limit and beyond it.
LongKeys == {<<>>, LongText(MaxKeyLength), LongText(MaxKeyLength + 1)}

LongKeyNext ==
    \/ \E config \in StorageConfigs, ok \in BOOLEAN : StorageInit(config, ok)
    \/ \E config \in TursoConfigs : ConfigureTurso(config)
    \/ \E key \in LongKeys, data \in JsonValues : Save(key, data)
    \/ \E key \in LongKeys : Delete(key)

LongKeySpec == StorageInitial /\ [][LongKeyNext]_vars

\* ------------------------------------------------------------------ claims
\* The halves of an action, told from its text alone.
Dots(text) == {i \in 1..Len(text) : text[i] = "."}
FirstDot(text) == CHOOSE i \in Dots(text) : \A j \in Dots(text) : i <= j
DomainHalf(text) == SubSeq(text, 1, FirstDot(text) - 1)
OperationHalf(text) == SubSeq(text, FirstDot(text) + 1, Len(text))
Malformed(text) ==
    \/ Dots(text) = {}
    \/ DomainHalf(text) = <<>>
    \/ OperationHalf(text) = <<>>
\* The operation name: the operation half up to its own first dot.
OperationName(text) ==
    LET half == OperationHalf(text)
    IN  IF Dots(half) = {} THEN half ELSE SubSeq(half, 1, FirstDot(half) - 1)
WellFormed(text) ==
    /\ Dots(text) # {}
    /\ DomainHalf(text) # <<>>
    /\ OperationName(text) # <<>>

Running == pc \in {"awaiting", "backoff"}
AllAttemptsFailed == pc = "done" /\ outcome.kind \in {"rejected", "timeout"}

\* C1: once the router is initialized, dispatch never rejects or throws: every
\* call that found the router initialized ends with a response envelope.
C1_DispatchNeverThrows ==
    (pc = "done" /\ call.initialized) => result.status \in {"ok", "error"}

C3_InvalidAction ==
    (pc # "idle" /\ call.initialized /\ Malformed(call.action)) =>
        /\ pc = "done"
        /\ result.status = "error"
        /\ result.error.code = "INVALID_ACTION"
        /\ result.error.retry = FALSE
        /\ lookups = 0
        /\ invocations = 0

C3_Witness ==
    /\ pc = "done"
    /\ call.initialized
    /\ call.action = <<"storage", ".">>
    /\ <<"storage">> \in DOMAIN call.registry
    /\ result.status = "error"
    /\ result.error.code = "INVALID_ACTION"

C6_InvocationCount ==
    /\ Running => invocations = attempt + 1
    /\ (AllAttemptsFailed /\ message.options.retry.t = "number"
          /\ message.options.retry.n >= 0) =>
            invocations = message.options.retry.n + 1

C6_Witness ==
    /\ AllAttemptsFailed
    /\ message.options.retry = Num(MaxRetries)
    /\ invocations = MaxRetries + 1
    /\ result.status = "error"

\* C7: once an attempt succeeds the dispatch is over with the success
\* envelope carrying that attempt's result: invocations are the index of that
\* attempt plus one, and nothing was waited after it.
C7_SuccessReturnsAtOnce ==
    outcome.kind = "resolved" =>
        /\ pc = "done"
        /\ result.status = "ok"
        /\ result.data = outcome.value
        /\ invocations = attempt + 1
        /\ Len(waits) = attempt
        /\ clock = startTime + result.duration

C7_Witness ==
    /\ pc = "done"
    /\ outcome.kind = "resolved"
    /\ attempt = 1
    /\ invocations = 2
    /\ message.options.retry = Num(2)
    /\ result.status = "ok"
    /\ result.data = "r1"

\* C8: after failed attempt i < maxRetries the executor waits 100 * 2^i ms
\* before attempt i + 1, for errors and timeouts alike, and after the last
\* attempt it waits nothing.
C8_Backoff ==
    /\ \A i \in 1..Len(waits) : waits[i] = 100 * (2 ^ (i - 1))
    /\ pc = "backoff" =>
          /\ Len(waits) = attempt + 1
          /\ attempt < message.options.retry.n
    /\ pc = "awaiting" =>
          /\ Len(waits) = attempt
          /\ attempt > 0 => startTime >= failedAt + waits[attempt]
    /\ AllAttemptsFailed =>
          /\ Len(waits) = message.options.retry.n
          /\ clock = failedAt

C8_Witness ==
    /\ AllAttemptsFailed
    /\ outcome.kind = "timeout"
    /\ waits = <<100, 200>>
    /\ result.status = "error"

\* C9: a dispatch whose final attempt does not settle within the timeout
\* returns an error envelope with code TIMEOUT, retryable, and that attempt
\* failed no earlier than the timeout after its start.
C9_TimeoutEnvelope ==
    (pc = "done" /\ outcome.kind = "timeout") =>
        /\ result.status = "error"
        /\ result.error.code = "TIMEOUT"
        /\ result.error.retry = TRUE
        /\ failedAt - startTime >= message.options.timeout.n

\* C10: the error envelope of a dispatch whose attempts all failed carries the
\* code and message of the last attempt's error, EXECUTION_FAILED when that
\* error has no code, and never an undefined code.
C10_LastError ==
    (AllAttemptsFailed /\ result.status = "error") =>
        /\ result.error.code =
              IF outcome.error.code # Undefined THEN outcome.error.code
              ELSE "EXECUTION_FAILED"
        /\ result.error.message =
              IF outcome.error.message # Undefined THEN outcome.error.message
              ELSE "Unknown error"
        /\ result.error.code # Undefined

C10_Witness ==
    /\ AllAttemptsFailed
    /\ invocations = 3
    /\ outcome.error = ErrObj("KEY_NOT_FOUND", "Key not found")
    /\ result.status = "error"
    /\ result.error.code = "KEY_NOT_FOUND"

\* C11: in every error envelope the retry flag is false exactly when the code
\* is INVALID_ACTION, CAPABILITY_NOT_FOUND or OPERATION_NOT_FOUND and true for
\* every other code, whether the router or a capability set the code.
StructuralCodes == {"INVALID_ACTION", "CAPABILITY_NOT_FOUND", "OPERATION_NOT_FOUND"}
OtherCodes == {"TIMEOUT", "KEY_NOT_FOUND", "EXECUTION_FAILED", "MY_CODE"}
C11_RetryFlag ==
    /\ result.status = "error" =>
          (result.error.retry = FALSE <=> result.error.code \in StructuralCodes)
    /\ \A code \in StructuralCodes \cup OtherCodes, id \in Ids :
          ErrorResponse(id, code, "m").error.retry = (code \in OtherCodes)

C11_Witness ==
    /\ pc = "done"
    /\ outcome.kind = "timeout"
    /\ result.status = "error"
    /\ result.error.code = "EXECUTION_FAILED"
    /\ result.error.retry = TRUE

\* C12: every envelope dispatch returns is a success record (id, status ok,
\* data, duration and no error) or a failure record (id, status error, error
\* with code, message and retry flag, and no data), and its id is the id
\* generated for the message of that dispatch.
C12_EnvelopeShape ==
    (pc = "done" /\ result.status # "thrown") =>
        /\ result.status \in {"ok", "error"}
        /\ call.id \in Ids
        /\ result.id = call.id
        /\ result.status = "ok" =>
              DOMAIN result = {"id", "status", "data", "duration"}
        /\ result.status = "error" =>
              /\ DOMAIN result = {"id", "status", "error"}
              /\ DOMAIN result.error = {"code", "message", "retry"}

C12_Witness ==
    /\ pc = "done"
    /\ call.id = "csop_2"
    /\ result.status = "ok"
    /\ result.id = "csop_2"
    /\ attempt = 2

\* The serialized size of the value given to the latest storage operation,
\* and whether an operation held the record key -> data in a store.
SizeOfLast == BlobSize(JsonStringify(last.data))
Holds(records, key, data) == key \in DOMAIN records /\ records[key] = data
LastSave == last.op = "save" /\ last.key # <<>>

\* C13: save with a non-empty key picks the tier by the serialized size alone
\* (the local database being open): below the threshold the record is written
\* to the local store and the receipt says local without warning; at or above
\* the threshold with a remote configuration the record is written to the
\* remote store and the receipt says remote; at or above it with none the
\* record is written locally and the receipt says local with a warning.
C13_TierBySize ==
    (LastSave /\ last.works) =>
        /\ last.kind = "resolved"
        /\ last.returned.key = last.key
        /\ last.returned.size = SizeOfLast
        /\ IF SizeOfLast < maxLocalSize
           THEN /\ last.returned.location = "indexeddb"
                /\ last.returned.warning = Undefined
                /\ Holds(objectStore, last.key, last.data)
           ELSE IF tursoConfig.set
           THEN /\ last.returned.location = "turso"
                /\ Holds(cloud, last.key, last.data)
           ELSE /\ last.returned.location = "indexeddb"
                /\ last.returned.warning \notin {Undefined, ""}
                /\ Holds(objectStore, last.key, last.data)

\* The part of C13 that is about the local tier: below the threshold, and at
\* or above it without a remote configuration.
C13_LocalBranches ==
    (LastSave /\ last.works /\ (SizeOfLast < maxLocalSize \/ ~tursoConfig.set)) =>
        /\ last.kind = "resolved"
        /\ last.returned.location = "indexeddb"
        /\ last.returned.warning =
              IF SizeOfLast < maxLocalSize THEN Undefined
              ELSE "Large data stored locally"
        /\ Holds(objectStore, last.key, last.data)

\* C14: a save of a non-empty key and a value at or above the threshold, with
\* the local database open, succeeds and leaves the record in the local or
\* the remote store, whatever the remote configuration is.
C14_NeverRefuses ==
    (LastSave /\ SizeOfLast >= maxLocalSize /\ last.works) =>
        /\ last.kind = "resolved"
        /\ \/ Holds(objectStore, last.key, last.data)
           \/ Holds(cloud, last.key, last.data)

\* C15: a get of key k, with no save or delete of k since the latest save of
\* k, whose value was below the threshold, returns the value of that save.
C15_RoundTrip ==
    (last.op = "get" /\ last.works /\ saved.made /\ saved.key = last.key
       /\ saved.small) =>
        /\ last.kind = "resolved"
        /\ last.returned.type = "value"
        /\ last.returned.value = saved.value

C15_Witness ==
    /\ last.op = "get"
    /\ last.key = <<"a", "b">>
    /\ saved.made /\ saved.key = last.key /\ saved.small
    /\ saved.value = JsonString(<<"é">>)
    /\ <<"a">> \in DOMAIN objectStore
    /\ last.kind = "resolved"
    /\ last.returned.value = JsonString(<<"é">>)

\* C16: a get of key k, with no save or delete of k since the latest save of
\* k, succeeds and returns the value of that save, whether the receipt of the
\* save said local or remote.
C16_Retrievable ==
    (last.op = "get" /\ last.works /\ saved.made /\ saved.key = last.key) =>
        /\ last.kind = "resolved"
        /\ last.returned.type = "value"
        /\ last.returned.value = saved.value

\* What dispatch with the default options (no retry) answers for a storage
\* operation that ended as the latest one did.
DispatchedEnvelope(id) ==
    IF last.kind = "resolved" THEN SuccessResponse(id, last.returned, 0)
    ELSE ExhaustedResult(id, CaughtError(ErrUndefined, last.error))

\* C17: a get of a non-empty key held by neither store fails with an error of
\* code KEY_NOT_FOUND, and dispatch answers it with an error envelope of code
\* KEY_NOT_FOUND whose retry flag is true.
C17_KeyNotFound ==
    (last.op = "get" /\ last.key # <<>> /\ last.key \notin DOMAIN objectStore
       /\ last.key \notin DOMAIN cloud) =>
        /\ last.kind = "rejected"
        /\ last.error.code = "KEY_NOT_FOUND"
        /\ \A id \in Ids :
              /\ DispatchedEnvelope(id).status = "error"
              /\ DispatchedEnvelope(id).error.code = "KEY_NOT_FOUND"
              /\ DispatchedEnvelope(id).error.retry = TRUE

C17_Witness ==
    /\ last.op = "get"
    /\ last.works
    /\ tursoConfig.set
    /\ last.key = <<"a">>
    /\ DOMAIN objectStore = {<<"a", "b">>}
    /\ <<"a">> \notin DOMAIN cloud
    /\ last.kind = "rejected"
    /\ last.error.code = "KEY_NOT_FOUND"

\* C18: a delete of a non-empty key (the local database being open) succeeds
\* with {deleted: true, key} whether or not the key was there, leaves the
\* local store without the key and otherwise as it was, so that a delete of a
\* key that is not there changes nothing.
C18_DeleteIdempotent ==
    (last.op = "delete" /\ last.key # <<>> /\ last.works) =>
        /\ last.kind = "resolved"
        /\ last.returned.type = "deleted"
        /\ last.returned.deleted = TRUE
        /\ last.returned.key = last.key
        /\ DOMAIN objectStore = (DOMAIN last.before) \ {last.key}
        /\ \A k \in DOMAIN objectStore : objectStore[k] = last.before[k]
        /\ last.key \notin DOMAIN last.before =>
              DOMAIN objectStore = DOMAIN last.before

C18_Witness ==
    /\ last.op = "delete"
    /\ last.key = <<"a">>
    /\ last.works
    /\ tursoConfig.set
    /\ DOMAIN last.before = {<<"a", "b">>}
    /\ DOMAIN objectStore = {<<"a", "b">>}
    /\ last.kind = "resolved"
    /\ last.returned.deleted = TRUE

\* C19: list (the local database being open) returns exactly the keys of the
\* local store that start with the prefix, all of them when the prefix is
\* absent or empty, and so never a key that only the remote store holds.
PrefixOfLast == IF last.payload.given THEN last.payload.prefix ELSE <<>>
C19_ListLocalKeys ==
    (last.op = "list" /\ last.works) =>
        /\ last.kind = "resolved"
        /\ last.returned.type = "keys"
        /\ last.returned.keys =
              {k \in DOMAIN objectStore :
                  /\ Len(PrefixOfLast) <= Len(k)
                  /\ \A i \in 1..Len(PrefixOfLast) : k[i] = PrefixOfLast[i]}
        /\ \A k \in (DOMAIN cloud) \ (DOMAIN objectStore) :
              k \notin last.returned.keys

C19_Witness ==
    /\ last.op = "list"
    /\ last.works
    /\ last.payload = [given |-> TRUE, prefix |-> <<"a">>]
    /\ DOMAIN objectStore = {<<"a">>}
    /\ DOMAIN cloud = {<<"a", "b">>}
    /\ last.returned.keys = {<<"a">>}

\* C20: the registry holds, for each name, the capability of the latest
\* register call for that name and nothing for a name never registered, and
\* a dispatch is routed by the registrations that were the latest when it
\* started.
C20_LastWriteWins ==
    /\ DOMAIN capabilities = DOMAIN registered
    /\ \A d \in DOMAIN registered : capabilities[d] = registered[d]
    /\ (pc # "idle" /\ call.initialized /\ lookups = 1) =>
          IF DomainHalf(call.action) \notin DOMAIN call.latest
          THEN result.error.code = "CAPABILITY_NOT_FOUND"
          ELSE IF TypeofMember(call.latest[DomainHalf(call.action)],
                               OperationName(call.action)) = "function"
          THEN /\ invocations > 0 \/ ~LoopCondition(0, message.options.retry)
               /\ invocations > 0 =>
                     invoked.capability = call.latest[DomainHalf(call.action)]
          ELSE /\ result.error.code = "OPERATION_NOT_FOUND"
               /\ invocations = 0

C20_Witness ==
    /\ pc = "done"
    /\ call.initialized
    /\ call.action = <<"storage", ".", "save">>
    /\ <<"compute">> \in DOMAIN call.latest
    /\ call.latest[<<"storage">>] = MyCapability
    /\ result.status = "error"
    /\ result.error.code = "OPERATION_NOT_FOUND"

\* The characters of a text whose symbols are words or single characters.
Spell(symbol) ==
    CASE symbol = "storage" -> <<"s", "t", "o", "r", "a", "g", "e">>
      [] symbol = "compute" -> <<"c", "o", "m", "p", "u", "t", "e">>
      [] symbol = "sync" -> <<"s", "y", "n", "c">>
      [] OTHER -> <<symbol>>
RECURSIVE SpellAll(_)
SpellAll(text) ==
    IF text = <<>> THEN <<>> ELSE Spell(Head(text)) \o SpellAll(Tail(text))
Letters ==
    {"a", "b", "c", "d", "e", "f", "g", "h", "i", "j", "k", "l", "m", "n",
     "o", "p", "q", "r", "s", "t", "u", "v", "w", "x", "y", "z",
     "A", "B", "C", "D", "E", "F", "G", "H", "I", "J", "K", "L", "M", "N",
     "O", "P", "Q", "R", "S", "T", "U", "V", "W", "X", "Y", "Z"}
Digits == {"0", "1", "2", "3", "4", "5", "6", "7", "8", "9"}
\* ^[a-zA-Z_][a-zA-Z0-9_]*$
IsDomainName(chars) ==
    /\ chars # <<>>
    /\ chars[1] \in Letters \cup {"_"}
    /\ \A i \in 2..Len(chars) : chars[i] \in Letters \cup Digits \cup {"_"}

\* C21: every name held in the registry matches ^[a-zA-Z_][a-zA-Z0-9_]*$
\* (register refuses a name that does not).
C21_RegistryNames ==
    \A name \in DOMAIN capabilities : IsDomainName(SpellAll(name))

InitNames == {<<"storage">>, <<"compute">>, <<"sync">>}

\* C22: once an init() call has resolved the registry holds storage, compute
\* and sync, initialized is true and info() says so and lists those names;
\* initialized is true only when an init() call has initialised and
\* registered all three.
C22_InitResult ==
    /\ \A i \in DOMAIN initPc :
          initPc[i] \in {"done", "noop"} =>
            /\ initialized
            /\ InitNames \subseteq DOMAIN capabilities
            /\ Info.initialized = TRUE
            /\ InitNames \subseteq Info.capabilities
    /\ initialized =>
          /\ \E i \in DOMAIN initPc : initPc[i] = "done"
          /\ InitNames \subseteq DOMAIN registered

C22_Witness ==
    /\ initPc[1] = "done"
    /\ initPc[2] = "done"
    /\ initialized
    /\ capabilities[<<"storage">>] = MyCapability
    /\ capabilities[<<"sync">>] = SyncCapability(1)
    /\ Info.capabilities = InitNames \cup {<<"1", "a">>}

\* The message of a thrown Error contains the token.
Contains(text, token) == \E i \in 1..Len(text) : text[i] = token

\* C23: validateStorageKey(key) returns key exactly when key is a string of
\* 1 to 255 characters, and otherwise throws an Error whose message contains
\* STORAGE_KEY_INVALID.
C23_ValidateStorageKey ==
    applied.fn = "validateStorageKey" =>
        IF applied.input.t = "string" /\ Len(applied.input.s) \in 1..255
        THEN /\ applied.output.kind = "returned"
             /\ applied.output.value = applied.input
        ELSE /\ applied.output.kind = "threw"
             /\ Contains(applied.output.message, "STORAGE_KEY_INVALID")

C23_Witness ==
    /\ applied.fn = "validateStorageKey"
    /\ applied.input.t = "string"
    /\ Len(applied.input.s) = 255
    /\ applied.output.kind = "returned"

\* C24: validateCapability(name) returns name exactly when name is a string
\* made of a letter or underscore followed by letters, digits or underscores,
\* and otherwise throws an Error whose message contains
\* CAPABILITY_NAME_INVALID.
C24_ValidateCapability ==
    applied.fn = "validateCapability" =>
        IF applied.input.t = "string" /\ IsDomainName(applied.input.s)
        THEN /\ applied.output.kind = "returned"
             /\ applied.output.value = applied.input
        ELSE /\ applied.output.kind = "threw"
             /\ Contains(applied.output.message, "CAPABILITY_NAME_INVALID")

C24_Witness ==
    /\ applied.fn = "validateCapability"
    /\ applied.input = Str(<<"Z", "1", "_">>)
    /\ applied.output.kind = "returned"
    /\ applied.output.value = Str(<<"Z", "1", "_">>)

\* C25: new CSOPError(errorCode, details) carries the code and message of
\* ErrorCodes[errorCode] (1001 for CAPABILITY_NOT_FOUND) and the details, and
\* the code 9999 for every errorCode that is no key of ErrorCodes.
C25_CSOPError ==
    applied.fn = "CSOPError" =>
        /\ applied.output.errorCode = applied.input.errorCode
        /\ applied.input.details # Undefined =>
              applied.output.details = applied.input.details
        /\ applied.input.errorCode = "CAPABILITY_NOT_FOUND" =>
              applied.output.code = Num(1001)
        /\ IF applied.input.errorCode \in DOMAIN ErrorCodes
           THEN /\ applied.output.code = ErrorCodes[applied.input.errorCode].code
                /\ applied.output.message =
                      ErrorCodes[applied.input.errorCode].message
           ELSE applied.output.code = Num(9999)

\* C25 for the error codes that are no names of Object.prototype.
C25_ExceptInherited ==
    (applied.fn = "CSOPError"
       /\ applied.input.errorCode \notin ObjectPrototypeNames) =>
        /\ applied.output.code =
              IF applied.input.errorCode \in DOMAIN ErrorCodes
              THEN ErrorCodes[applied.input.errorCode].code ELSE Num(9999)
        /\ applied.output.details =
              IF applied.input.details = Undefined THEN "{}"
              ELSE applied.input.details

\* C26: dispatch splits the action at its first dot: the domain is the text
\* before it and the operation it looks up is all the text after it.
C26_SplitOnFirstDot ==
    (applied.fn = "parseAction" /\ Dots(applied.input) # {}) =>
        /\ applied.output.domain = DomainHalf(applied.input)
        /\ applied.output.operationDefined
        /\ applied.output.operation = OperationHalf(applied.input)

\* What holds instead: the operation is the text between the first dot and
\* the second.
C26_SecondPiece ==
    (applied.fn = "parseAction" /\ Dots(applied.input) # {}) =>
        /\ applied.output.domain = DomainHalf(applied.input)
        /\ applied.output.operation = OperationName(applied.input)

\* C27: within one dispatch call the attempts are strictly sequential:
\* attempt N+1 is started only after attempt N has settled or its timer has
\* fired (so no earlier than the timeout after attempt N's start), and after
\* the backoff delay that follows attempt N has fully elapsed.
C27_Sequential ==
    pc # "idle" =>
        /\ Len(starts) = invocations
        /\ \A n \in 1..(Len(starts) - 1) :
              /\ Len(waits) >= n
              /\ starts[n + 1] >= starts[n] + waits[n]
              /\ (n - 1) \in DOMAIN abandoned =>
                    starts[n + 1] >=
                        starts[n] + message.options.timeout.n + waits[n]
        /\ (pc = "awaiting" /\ attempt > 0) =>
              /\ outcome.kind \in {"rejected", "timeout"}
              /\ failedAt >= starts[attempt]
              /\ startTime = starts[attempt + 1]
              /\ startTime >= failedAt + waits[attempt]
        /\ pc = "backoff" =>
              /\ invocations = attempt + 1
              /\ outcome.kind \in {"rejected", "timeout"}

C27_Witness ==
    /\ pc = "awaiting"
    /\ attempt = 2
    /\ Len(starts) = 3
    /\ DOMAIN abandoned = {0}
    /\ starts[2] >= starts[1] + 50 + 100
    /\ starts[3] >= starts[2] + 200

\* C28: the settlement of an operation whose timer fired first is ignored.
\* The step in which it settles changes nothing of the executor or of the
\* envelope; a dispatch whose last attempt timed out answers the TIMEOUT
\* error whatever became of its operation; a success envelope is the
\* settlement of the attempt that was being awaited; and the attempt that
\* is being awaited is never one of the abandoned ones.
LateSettlement ==
    \E k \in DOMAIN abandoned :
        /\ k \in DOMAIN abandoned'
        /\ abandoned[k] = "pending"
        /\ abandoned'[k] # "pending"

C28_AbandonedIgnored ==
    /\ [][LateSettlement =>
             UNCHANGED <<pc, call, message, attempt, lastError, result, clock,
                         startTime, invocations, invoked, waits, outcome,
                         failedAt, starts>>]_vars
    /\ []((pc = "done" /\ outcome.kind = "timeout") =>
             /\ result.status = "error"
             /\ result.error.message = "TIMEOUT"
             /\ (attempt - 1) \in DOMAIN abandoned)
    /\ []((pc = "done" /\ result.status = "ok") =>
             /\ outcome.kind = "resolved"
             /\ attempt \notin DOMAIN abandoned
             /\ invocations = attempt + 1)
    /\ []((pc = "awaiting") =>
             /\ attempt \notin DOMAIN abandoned
             /\ result = NoResult)

C28_Witness ==
    /\ pc = "done"
    /\ attempt = 2
    /\ outcome.kind = "timeout"
    /\ abandoned = (0 :> "resolved") @@ (1 :> "resolved")
    /\ result.status = "error"

\* C29: get(key) calls the local tier first and on a hit returns the local
\* value without calling the remote tier; the remote tier is called only
\* after a local miss or a failed local probe, and only when a remote
\* configuration is present; a failed local probe is not what get rejects
\* with: it counts as a miss.
LocalHit == last.works /\ last.key \in DOMAIN objectStore

C29_LocalFirst ==
    (last.op = "get" /\ last.key # <<>>) =>
        /\ Len(tierCalls) >= 1
        /\ tierCalls[1] = "local"
        /\ LocalHit =>
              /\ tierCalls = <<"local">>
              /\ last.kind = "resolved"
              /\ last.returned = GetReturn(objectStore[last.key])
        /\ (\E i \in 1..Len(tierCalls) : tierCalls[i] = "remote") =>
              /\ tierCalls = <<"local", "remote">>
              /\ ~LocalHit
              /\ tursoConfig.set
        /\ ~last.works =>
              /\ last.kind = "rejected"
              /\ last.error = KeyNotFoundError

C29_Witness ==
    /\ last.op = "get"
    /\ last.key = <<"a">>
    /\ ~last.works
    /\ tursoConfig.set
    /\ tierCalls = <<"local", "remote">>
    /\ last.error = KeyNotFoundError

\* C30: delete(key) with a non-empty key calls the local delete and, when a
\* remote configuration is present, the remote delete too, whether or not
\* the key exists and whatever the outcome of the local delete.
C30_DeleteBothTiers ==
    (last.op = "delete" /\ last.key # <<>>) =>
        /\ Len(tierCalls) >= 1
        /\ tierCalls[1] = "local"
        /\ tursoConfig.set => tierCalls = <<"local", "remote">>
        /\ ~tursoConfig.set => tierCalls = <<"local">>

\* What holds instead: the remote delete is called when a remote
\* configuration is present and the local delete succeeded, whether or not
\* the key existed; a failed local delete is what delete rejects with, and
\* the remote delete is not called.
C30_AfterLocalSuccess ==
    (last.op = "delete" /\ last.key # <<>>) =>
        /\ Len(tierCalls) >= 1
        /\ tierCalls[1] = "local"
        /\ (last.works /\ tursoConfig.set) => tierCalls = <<"local", "remote">>
        /\ (last.works /\ ~tursoConfig.set) => tierCalls = <<"local">>
        /\ ~last.works =>
              /\ tierCalls = <<"local">>
              /\ last.kind = "rejected"
              /\ last.error = LocalStoreError

\* C31: the duration of a success envelope is the time from the start of
\* the attempt that succeeded to its settlement: the earlier attempts and
\* the backoff delays are not in it, and it is within the timeout (plus the
\* lateness of a timer).
MaxLateness == CHOOSE l \in TimerLateness : \A m \in TimerLateness : m <= l

C31_Duration ==
    (pc = "done" /\ result.status = "ok") =>
        /\ result.duration = clock - starts[Len(starts)]
        /\ Len(starts) = attempt + 1
        /\ result.duration <= message.options.timeout.n + MaxLateness
        /\ attempt > 0 =>
              /\ starts[Len(starts)] >= failedAt + waits[attempt]
              /\ result.duration + waits[attempt] <= clock - failedAt
              /\ result.duration < clock

C31_Witness ==
    /\ pc = "done"
    /\ result.status = "ok"
    /\ attempt = 2
    /\ result.duration = 20
    /\ waits = <<100, 200>>
    /\ clock >= 320

\* C32: over any interleaving of init() calls the capabilities are built,
\* initialised and registered at most once: at most one call gets past the
\* `if (this.initialized)` guard without failing, and an init() after a
\* completed one does nothing.
PastGuard(i) == initPc[i] \in {"storage", "compute", "sync", "done"}

C32_InitOnce ==
    /\ Cardinality({i \in DOMAIN initPc : PastGuard(i)}) <= 1
    /\ \A i \in DOMAIN initPc :
          initPc[i] = "noop" => \E j \in DOMAIN initPc : initPc[j] = "done"

\* What holds instead: only an init() that starts after another has
\* completed does nothing; one that starts before that builds, initialises
\* and registers its own capabilities, and the registry holds those of the
\* call that completed last.
C32_OnlyAfterCompleted ==
    /\ \A i \in DOMAIN initPc :
          initPc[i] = "noop" => \E j \in DOMAIN initPc : initPc[j] = "done"
    /\ \A i \in DOMAIN initPc :
          initPc[i] = "done" =>
              /\ initialized
              /\ \E j \in DOMAIN initPc :
                    /\ initPc[j] = "done"
                    /\ registered[<<"compute">>] = ComputeCapability(j)
                    /\ registered[<<"sync">>] = SyncCapability(j)

\* C33: once init has completed, no step of the router changes which
\* capability a domain maps to.
C33_RegistryReadOnly ==
    [][initialized => capabilities' = capabilities]_vars

\* What holds instead: dispatch never changes the registry, nor does an
\* init() call made after initialization.
C33_DispatchReadsOnly ==
    [][(dispatchVars' # dispatchVars
        \/ \E i \in DOMAIN initPc : initPc[i] = "new" /\ initPc'[i] = "noop")
       => capabilities' = capabilities]_vars

\* C34: save, get and delete with an empty key fail before any store is
\* touched: no tier is called, the step changes neither tier, the operation
\* rejects with 'Key is required', and dispatch answers that rejection with
\* an error envelope that is retryable like any other operation error.
KeyedOperations == {"save", "get", "delete"}

C34_EmptyKey ==
    /\ [][(last'.op \in KeyedOperations /\ last'.key = <<>>) =>
             UNCHANGED <<objectStore, cloud, saved, db, maxLocalSize,
                         tursoConfig>>]_vars
    /\ []((last.op \in KeyedOperations /\ last.key = <<>>) =>
             /\ tierCalls = <<>>
             /\ last.kind = "rejected"
             /\ last.error = KeyRequiredError
             /\ \A id \in Ids :
                   /\ DispatchedEnvelope(id).status = "error"
                   /\ DispatchedEnvelope(id).error.code = "EXECUTION_FAILED"
                   /\ DispatchedEnvelope(id).error.message = "Key is required"
                   /\ DispatchedEnvelope(id).error.retry = TRUE
                   /\ \A k \in 0..MaxRetries :
                         RetryRemains(k, Num(MaxRetries)) <=> k < MaxRetries)

C34_Witness ==
    /\ last.op = "delete"
    /\ last.key = <<>>
    /\ last.works
    /\ tursoConfig.set
    /\ DOMAIN objectStore = {<<"a">>, <<"a", "b">>}
    /\ last.kind = "rejected"

\* C35: an init() call that failed because a capability's init rejected has
\* registered none of its capabilities; while no init() call has completed
\* the router is uninitialised, its registry is empty and every dispatch
\* throws; and an init() call made after the failure starts from the
\* beginning (it does nothing only when another call has completed).
RegisteredBy(i) ==
    {d \in DOMAIN capabilities :
        capabilities[d].kind \in {"storage", "compute", "sync"}
        /\ capabilities[d].inst = i}

NoneCompleted == \A j \in DOMAIN initPc : initPc[j] # "done"

C35_FailedInit ==
    \A i \in DOMAIN initPc :
        initPc[i] = "failed" =>
            /\ RegisteredBy(i) = {}
            /\ NoneCompleted =>
                  /\ ~initialized
                  /\ capabilities = EmptyRegistry
                  /\ ~Info.initialized
                  /\ pc = "done" => result.status = "thrown"
                  /\ pc \notin {"awaiting", "backoff"}
            /\ \A j \in DOMAIN initPc :
                  (j > i /\ NoneCompleted) =>
                      initPc[j] \in {"new", "storage", "compute", "sync", "failed"}

C35_Witness ==
    /\ initPc[1] = "failed"
    /\ initPc[2] = "compute"
    /\ pc = "done"
    /\ result.status = "thrown"
    /\ capabilities = EmptyRegistry

\* C36: a get that returns a value for key k returns the value of the most
\* recent save of k (no save or delete of k since), in whichever tier the
\* saves of k landed, and never an older copy.
C36_MostRecent ==
    (last.op = "get" /\ last.kind = "resolved" /\ saved.made
       /\ saved.key = last.key) =>
        last.returned = GetReturn(saved.value)

\* What holds instead: a get returns what the local store holds under the
\* key, which is the value of the most recent save that landed there.
C36_LocalCopy ==
    (last.op = "get" /\ last.kind = "resolved") =>
        /\ last.key \in DOMAIN objectStore
        /\ last.returned = GetReturn(objectStore[last.key])
        /\ (saved.made /\ saved.key = last.key /\ saved.location = "indexeddb") =>
              last.returned = GetReturn(saved.value)

\* C37: an error envelope whose retry flag is false was produced before any
\* attempt: no operation was invoked and no backoff was waited in that
\* dispatch.
C37_StructuralBeforeAttempt ==
    (pc = "done" /\ result.status = "error" /\ ~result.error.retry) =>
        /\ invocations = 0
        /\ waits = <<>>

\* What holds instead: an envelope with retry false after an invocation is
\* the answer to an operation that rejected with one of the three
\* structural codes as its error's code.
C37_UnlessOperationCode ==
    (pc = "done" /\ result.status = "error" /\ ~result.error.retry
       /\ invocations > 0) =>
        /\ outcome.kind = "rejected"
        /\ outcome.error.code \in StructuralCodes
        /\ result.error.code = outcome.error.code

\* C38: a get of a non-empty key either returns a stored value or fails
\* with KEY_NOT_FOUND; no error of a probe reaches the caller; and it fails
\* with KEY_NOT_FOUND only when the key is in no tier it could read: not in
\* the local store if that works, not in the remote one if that is
\* configured.
GetOfKey == last.op = "get" /\ last.key # <<>>

C38_TwoOutcomes ==
    GetOfKey =>
        /\ \/ last.kind = "resolved" /\ last.returned.type = "value"
           \/ last.kind = "rejected" /\ last.error = KeyNotFoundError
        /\ last.kind = "rejected" =>
              /\ last.works => last.key \notin DOMAIN objectStore
              /\ tursoConfig.set => last.key \notin DOMAIN cloud

\* What holds instead: the two outcomes, and KEY_NOT_FOUND only when the
\* local store does not hold the key or could not be read.
C38_LocalOnly ==
    GetOfKey =>
        /\ \/ last.kind = "resolved" /\ last.returned.type = "value"
           \/ last.kind = "rejected" /\ last.error = KeyNotFoundError
        /\ last.kind = "rejected" =>
              (last.works => last.key \notin DOMAIN objectStore)

\* C39: every key under which a tier holds a record is a text of 1 to 255
\* characters.
KeysHeld == (DOMAIN objectStore) \cup (DOMAIN cloud)

C39_KeyLength ==
    \A k \in KeysHeld : Len(k) >= 1 /\ ~KeyLengthRejected(Len(k))

\* What holds instead: no record is held under the empty key.
C39_KeyNotEmpty ==
    \A k \in KeysHeld : Len(k) >= 1

\* C40: once delete(key) has completed and key was not saved since, a get
\* of key fails with KEY_NOT_FOUND and a list does not return key, whether
\* or not the key was held locally or remotely and whether or not a remote
\* configuration is present.
C40_DeletedStaysDeleted ==
    /\ \A k \in DOMAIN removed : k \notin DOMAIN objectStore
    /\ (last.op = "get" /\ last.key \in DOMAIN removed) =>
          /\ last.kind = "rejected"
          /\ last.error = KeyNotFoundError
    /\ (last.op = "list" /\ last.kind = "resolved") =>
          last.returned.keys \cap DOMAIN removed = {}

C40_Witness ==
    /\ last.op = "get"
    /\ last.key = <<"a", "b">>
    /\ last.key \in DOMAIN removed
    /\ removed[last.key]
    /\ last.key \in DOMAIN cloud
    /\ tursoConfig.set
    /\ last.works
    /\ last.error = KeyNotFoundError

====
